---- MODULE Spec2Model ----
(***************************************************************************)
(* Order cascade and ledger reconciliation of the Wood Ceylon business     *)
(* management client.  The hosted store is modelled as a set of tables;   *)
(* every page-level handler is an action that performs the handler's      *)
(* sequence of store calls.  A store call that returns an error is an     *)
(* input of the handler (at most one failing call per run).               *)
(***************************************************************************)
EXTENDS Integers, Sequences, FiniteSets, TLC

\* ---------------------------------------------------------------- bounds
MaxTx == 2            \* rows the transactions table may hold at once
MaxOrders == 2        \* order rows ever inserted
MaxSequence == 2      \* values the order sequence may hand out before it stops
MaxInvocations == 2   \* 'distribute-profit' invocations recorded per order
MaxDeficit == 1       \* how far below zero the model lets stock_quantity go

\* ------------------------------------------------------------ input sets
NULL == "null"
Accounts == {"a1", "a2"}
Products == {"p1"}
Workers == {"w1"}
Customers == {"c1"}
Sessions == {"s1", "s2"}
Amounts == {1, 2}
TransactionTypes == {"income", "expense", "transfer"}
OrderStatuses == {"draft", "confirmed", "in_progress", "completed", "cancelled"}
OrderTotals == {1}
PaidAmounts == {0, 1, 2}
FallbackStamps == {7}
FallbackSuffixes == {3, 4}
InitStock == 1
InitTotal == 1
InitBalance == 1

VARIABLES
  accounts,            \* accounts table: id -> [is_active, balance_minor]
  transactions,        \* transactions table in created_at order
  orders,              \* orders table, row i has id i
  order_items,         \* order id -> items of that order
  worker_payment_records, \* order id -> number of records of that order
  profit_distributions,   \* order id -> number of rows with is_distributed
  stock_movements,     \* order id -> movements with reference_id = order
  inventory,           \* inventory table: id -> [product_id, stock_quantity]
  workers,             \* workers table
  customers,           \* customers table
  order_sequence,      \* counter behind generate_unique_order_number
  pc,                  \* per session: position inside handleSaveOrder
  pendingOrder,        \* per session: orderId held across the await
  issued,              \* every value generateOrderNumber returned
  reissued,            \* generateOrderNumber returned a value a second time
  invocations,         \* 'distribute-profit' calls: order id -> count
  invokedWith,         \* the orderData each call was made for
  sinceReset,          \* a reset completed and no order was created since
  system_settings,     \* system_settings table: setting_key -> setting_value
  worker_daily_work,   \* worker_daily_work table in insertion order
  attendance,          \* per session: handleMarkAttendance across its awaits
  conversion,          \* the amount last converted and its results
  outcome              \* what the last handler step reported

vars == <<accounts, transactions, orders, order_items, worker_payment_records,
          profit_distributions, stock_movements, inventory, workers,
          customers, order_sequence, pc, pendingOrder, issued, reissued,
          invocations, invokedWith, sinceReset, system_settings,
          worker_daily_work, attendance, conversion, outcome>>

\* what the order, transaction and customer pages never write
settingsAndAttendance == <<system_settings, worker_daily_work, attendance, conversion>>

OrderIds == 1..MaxOrders

\* ----------------------------------------------------------- Map helpers
\* accountBalances.get(id) || 0
MapGet(m, k) == IF k \in DOMAIN m THEN m[k] ELSE 0

\* accountBalances.set(id, v)
MapSet(m, k, v) == [x \in (DOMAIN m) \cup {k} |-> IF x = k THEN v ELSE m[x]]

\* one iteration of the loop over allTransactions
ApplyTransaction(m, t) ==
  IF t.transaction_type = "income" /\ t.to_account_id # NULL
  THEN MapSet(m, t.to_account_id, MapGet(m, t.to_account_id) + t.amount_minor)
  ELSE IF t.transaction_type = "expense" /\ t.from_account_id # NULL
  THEN MapSet(m, t.from_account_id, MapGet(m, t.from_account_id) - t.amount_minor)
  ELSE IF t.transaction_type = "transfer" /\ t.from_account_id # NULL
          /\ t.to_account_id # NULL
  THEN LET m1 == MapSet(m, t.from_account_id,
                        MapGet(m, t.from_account_id) - t.amount_minor)
       IN MapSet(m1, t.to_account_id, MapGet(m1, t.to_account_id) + t.amount_minor)
  ELSE m

RECURSIVE ApplyTransactions(_, _)
ApplyTransactions(m, txs) ==
  IF txs = <<>> THEN m
  ELSE ApplyTransactions(ApplyTransaction(m, Head(txs)), Tail(txs))

\* the value every balance starts from: accountBalances.set(account.id, 0)
StartingBalancesFromStore(accts) ==
  [a \in {x \in DOMAIN accts : accts[x].is_active} |-> accts[a].balance_minor]

StartingBalances(accts) ==
  [a \in {x \in DOMAIN accts : accts[x].is_active} |-> 0]

\* the accountBalances map recalculateAllAccountBalances computes
CalculatedBalances(accts, txs) == ApplyTransactions(StartingBalances(accts), txs)

\* the accounts table after the update loop; failed = ids whose update errors
recalculateAllAccountBalances(accts, txs, failed) ==
  LET calc == CalculatedBalances(accts, txs)
  IN [a \in DOMAIN accts |->
        IF a \in DOMAIN calc /\ a \notin failed
        THEN [accts[a] EXCEPT !.balance_minor = calc[a]]
        ELSE accts[a]]

\* ------------------------------------------------------------ signed sum
\* what one stored transaction contributes to account a
SignedAmount(t, a) ==
  (IF t.transaction_type \in {"income", "transfer"} /\ t.to_account_id = a
   THEN t.amount_minor ELSE 0)
  - (IF t.transaction_type \in {"expense", "transfer"} /\ t.from_account_id = a
     THEN t.amount_minor ELSE 0)

RECURSIVE SumOver(_, _, _)
SumOver(txs, a, idx) ==
  IF idx = {} THEN 0
  ELSE LET i == CHOOSE j \in idx : TRUE
       IN SignedAmount(txs[i], a) + SumOver(txs, a, idx \ {i})

SignedSum(txs, a) == SumOver(txs, a, DOMAIN txs)

\* ----------------------------------------------------------------- Init
NoSuffix == 0 - 1
NoNumber == [num |-> 0, suffix |-> NoSuffix]

Report(op, order, result) ==
  [op |-> op, order |-> order, result |-> result, number |-> NoNumber,
   afterReset |-> FALSE, detected |-> {}, recalc |-> "none"]

\* no row in system_settings, no handleMarkAttendance in flight, nothing converted
NoSettings == [key \in {} |-> NULL]
NoAttendance == [at |-> "idle", worker_id |-> NULL, work_date |-> 0,
                 attendance_type |-> NULL, existing |-> 0]
NoConversion == [op |-> "none", input |-> 0, amount |-> NULL, minor |-> 0]

NoPending == [order_id |-> 0, status |-> "none", total_amount_minor |-> 0,
              paid_amount_minor |-> 0]

\* --------------------------------------------------------- Transactions
\* the form is passed on whatever accounts are chosen (mutant of ModalAccepts)
ModalAcceptsAnyAccounts(type, amount, from, to) == amount > 0

\* TransactionModal.handleSubmit: the form is passed on to onSave
ModalAccepts(type, amount, from, to) ==
  /\ amount > 0
  /\ ~(type = "expense" /\ from = NULL)
  /\ ~(type = "income" /\ to = NULL)
  /\ ~(type = "transfer" /\ (from = NULL \/ to = NULL))

\* handleSaveTransaction's checks before the insert
TransactionValid(type, amount) ==
  /\ type \in {"income", "expense", "transfer"}
  /\ amount > 0

\* handleSaveTransaction, create path: one row is inserted, no account is touched
handleSaveTransaction(type, amount, from, to, descr, insertOk) ==
  /\ ModalAccepts(type, amount, from, to)
  /\ Len(transactions) < MaxTx
  /\ IF TransactionValid(type, amount) /\ insertOk
     THEN /\ transactions' = Append(transactions,
               [transaction_type |-> type, amount_minor |-> amount,
                from_account_id |-> from, to_account_id |-> to,
                description |-> descr])
          /\ outcome' = Report("saveTransaction", 0, "success")
     ELSE /\ UNCHANGED transactions
          /\ outcome' = Report("saveTransaction", 0, "error")
  /\ UNCHANGED <<accounts, orders, order_items, worker_payment_records,
                 profit_distributions, stock_movements, inventory, workers,
                 customers, order_sequence, pc, pendingOrder, issued,
                 reissued, invocations, invokedWith, sinceReset>>
  /\ UNCHANGED settingsAndAttendance

\* the sequence without position i
RemoveAt(seq, i) == [j \in 1..(Len(seq) - 1) |-> IF j < i THEN seq[j] ELSE seq[j + 1]]

\* handleDeleteTransaction: the row is deleted, no account is touched
handleDeleteTransaction(i, deleteOk) ==
  /\ i \in DOMAIN transactions
  /\ IF deleteOk
     THEN /\ transactions' = RemoveAt(transactions, i)
          /\ outcome' = Report("deleteTransaction", 0, "success")
     ELSE /\ UNCHANGED transactions
          /\ outcome' = Report("deleteTransaction", 0, "error")
  /\ UNCHANGED <<accounts, orders, order_items, worker_payment_records,
                 profit_distributions, stock_movements, inventory, workers,
                 customers, order_sequence, pc, pendingOrder, issued,
                 reissued, invocations, invokedWith, sinceReset>>
  /\ UNCHANGED settingsAndAttendance

\* ---------------------------------------------------------- order numbers
\* WC-<year>-<nnnn>, the value the database function hands out
FormatOrderNumber(n) == [num |-> n, suffix |-> NoSuffix]

\* WC-<year>-<timestamp % 10000>-<random suffix>, the fallback
FallbackOrderNumber(stamp, suffix) == [num |-> stamp % 10000, suffix |-> suffix]

\* generateOrderNumber: the value returned
generateOrderNumber(rpcOk, stamp, suffix) ==
  IF rpcOk THEN FormatOrderNumber(order_sequence + 1)
  ELSE FallbackOrderNumber(stamp, suffix)

\* generateOrderNumber: what the call leaves behind
GenerateEffect(rpcOk, stamp, suffix) ==
  /\ rpcOk => order_sequence < MaxSequence
  /\ order_sequence' = IF rpcOk THEN order_sequence + 1 ELSE order_sequence
  /\ issued' = issued \cup {generateOrderNumber(rpcOk, stamp, suffix)}
  /\ reissued' = (reissued \/ generateOrderNumber(rpcOk, stamp, suffix) \in issued)

\* OrderModal, opened for a new order: fetches a number to display
OrderModalOpen(rpcOk, stamp, suffix) ==
  /\ GenerateEffect(rpcOk, stamp, suffix)
  /\ outcome' = Report("openOrderModal", 0, "none")
  /\ UNCHANGED <<accounts, transactions, orders, order_items,
                 worker_payment_records, profit_distributions, stock_movements,
                 inventory, workers, customers, pc, pendingOrder, invocations,
                 invokedWith, sinceReset>>
  /\ UNCHANGED settingsAndAttendance

\* the insert is refused without a conflict check (mutant of OrderNumberConflict)
OrderNumberConflictNever(rows, number) == FALSE

\* unique constraint orders_order_number_key: the insert is refused
OrderNumberConflict(rows, number) ==
  \E i \in DOMAIN rows : rows[i].order_number = number

\* ------------------------------------------------------------ handleSaveOrder
\* the select offers a sixth value (mutant of StatusOptions)
StatusOptionsWithRestored == OrderStatuses \cup {"restored"}

\* OrderModal: the options of the Order Status select
StatusOptions == {"draft", "confirmed", "in_progress", "completed", "cancelled"}

ProductItem == [product_id |-> "p1", quantity |-> 1]
CustomItem == [product_id |-> NULL, quantity |-> 1]
ItemLists == {<<>>, <<ProductItem>>, <<CustomItem>>}

\* inventory rows of a product, in table order (.eq('product_id').limit(1))
InventoryOf(inv, product) == {i \in DOMAIN inv : inv[i].product_id = product}

FirstOf(S) == CHOOSE i \in S : \A j \in S : i <= j

\* the inventory table after the reduction loop over the order's items
RECURSIVE ReduceInventory(_, _)
ReduceInventory(inv, items) ==
  IF items = <<>> THEN inv
  ELSE LET item == Head(items)
           rows == InventoryOf(inv, item.product_id)
       IN IF item.product_id # NULL /\ rows # {}
          THEN ReduceInventory(
                 [inv EXCEPT ![FirstOf(rows)].stock_quantity = @ - item.quantity],
                 Tail(items))
          ELSE ReduceInventory(inv, Tail(items))

\* the 'issue' stock movements the loop inserts, one per reduced item
RECURSIVE IssuedMovements(_, _)
IssuedMovements(inv, items) ==
  IF items = <<>> THEN <<>>
  ELSE LET item == Head(items)
       IN IF item.product_id # NULL /\ InventoryOf(inv, item.product_id) # {}
          THEN <<[product_id |-> item.product_id, quantity |-> item.quantity]>>
                 \o IssuedMovements(inv, Tail(items))
          ELSE IssuedMovements(inv, Tail(items))

\* profit is distributed whatever was paid (mutant of ShouldDistribute)
ShouldDistributeAnyPayment(status, total, paid) == status = "completed"

\* orderData.status === 'completed' and remainingPayment === 0
ShouldDistribute(status, total, paid) ==
  /\ status = "completed"
  /\ total - paid = 0

\* .single() on profit_distributions of the order, then the is_distributed test
AlreadyDistributed(o) == profit_distributions[o] = 1

SaveReport(o, result, number, created) ==
  [op |-> "saveOrder", order |-> o, result |-> result, number |-> number,
   afterReset |-> (created /\ sinceReset), detected |-> {}, recalc |-> "none"]

\* handleSaveOrder up to the await of the 'distribute-profit' invocation
handleSaveOrder(s, editing, status, total, paid, items, rpcOk, stamp, suffix) ==
  /\ pc[s] = "idle"
  /\ LET created == (editing = 0)
         number == IF created THEN generateOrderNumber(rpcOk, stamp, suffix)
                   ELSE orders[editing].order_number
         o == IF created THEN Len(orders) + 1 ELSE editing
         row == [order_number |-> number, status |-> status, is_active |-> TRUE]
         newInv == ReduceInventory(inventory, items)
     IN
     /\ IF created
        THEN /\ Len(orders) < MaxOrders \/ OrderNumberConflict(orders, number)
             /\ GenerateEffect(rpcOk, stamp, suffix)
             /\ sinceReset' = FALSE
        ELSE /\ editing \in DOMAIN orders
             /\ orders[editing].is_active
             /\ UNCHANGED <<order_sequence, issued, reissued, sinceReset>>
     /\ \A i \in DOMAIN newInv : newInv[i].stock_quantity >= 0 - MaxDeficit
     /\ IF created /\ OrderNumberConflict(orders, number)
        THEN \* the insert fails: 'Order number conflict detected'
             /\ outcome' = SaveReport(0, "conflict", number, created)
             /\ UNCHANGED <<orders, order_items, worker_payment_records,
                            stock_movements, inventory, pc, pendingOrder>>
        ELSE
          /\ orders' = IF created THEN Append(orders, row)
                       ELSE [orders EXCEPT ![o] =
                               [row EXCEPT !.is_active = orders[o].is_active]]
          /\ IF items = <<>>
             THEN \* 'Order must contain at least one product'
                  /\ order_items' = [order_items EXCEPT ![o] = <<>>]
                  /\ worker_payment_records' =
                       [worker_payment_records EXCEPT ![o] = 0]
                  /\ outcome' = SaveReport(o, "error", number, created)
                  /\ UNCHANGED <<stock_movements, inventory, pc, pendingOrder>>
             ELSE
               /\ order_items' = [order_items EXCEPT ![o] = items]
               /\ worker_payment_records' =
                    [worker_payment_records EXCEPT ![o] = Len(items)]
               /\ inventory' = newInv
               /\ stock_movements' =
                    [stock_movements EXCEPT
                       ![o] = @ \o IssuedMovements(inventory, items)]
               /\ IF ShouldDistribute(status, total, paid) /\ ~AlreadyDistributed(o)
                  THEN /\ pc' = [pc EXCEPT ![s] = "invoke"]
                       /\ pendingOrder' = [pendingOrder EXCEPT ![s] =
                            [order_id |-> o, status |-> status,
                             total_amount_minor |-> total,
                             paid_amount_minor |-> paid]]
                       /\ outcome' = SaveReport(o, "pending", number, created)
                  ELSE /\ UNCHANGED <<pc, pendingOrder>>
                       /\ outcome' = SaveReport(o, "success", number, created)
  /\ UNCHANGED <<accounts, transactions, profit_distributions, workers,
                 customers, invocations, invokedWith>>
  /\ UNCHANGED settingsAndAttendance

\* 'distribute-profit' is invoked and handleSaveOrder reports success
handleSaveOrderInvoke(s) ==
  /\ pc[s] = "invoke"
  /\ LET o == pendingOrder[s].order_id
     IN /\ invocations[o] < MaxInvocations
        /\ invocations' = [invocations EXCEPT ![o] = @ + 1]
        /\ invokedWith' = invokedWith \cup {pendingOrder[s]}
        /\ profit_distributions' = [profit_distributions EXCEPT ![o] = @ + 1]
        /\ outcome' = Report("saveOrder", o, "success")
  /\ pc' = [pc EXCEPT ![s] = "idle"]
  /\ pendingOrder' = [pendingOrder EXCEPT ![s] = NoPending]
  /\ UNCHANGED <<accounts, transactions, orders, order_items,
                 worker_payment_records, stock_movements, inventory, workers,
                 customers, order_sequence, issued, reissued, sinceReset>>
  /\ UNCHANGED settingsAndAttendance

\* ---------------------------------------------------------- handleDeleteOrder
\* the deletion steps of STEP 4, each a delete on one table
DeletionStepNames == {"stock_movements", "transactions", "worker_payment_records",
                      "profit_distributions", "order_items"}

DeleteFailures == {"none", "stock_movements", "transactions",
                   "worker_payment_records", "profit_distributions",
                   "order_items", "recalc_read", "recalc_update", "deactivate"}

\* STEP 3: the transactions whose description names the order
DetectedTransactions(o) ==
  {i \in DOMAIN transactions : transactions[i].description = o}

\* the rows of a sequence at the positions kept, in order
RECURSIVE KeepRows(_, _, _)
KeepRows(seq, keep, i) ==
  IF i > Len(seq) THEN <<>>
  ELSE (IF i \in keep THEN <<seq[i]>> ELSE <<>>) \o KeepRows(seq, keep, i + 1)

\* a stock movement row carries no inventory_id: movementRecord.inventory_id || 0
MovementInventoryId(m) == 0

\* STEP 5: the inventory table after the restoration loop
RECURSIVE RestoreInventory(_, _, _)
RestoreInventory(inv, items, movements) ==
  IF items = <<>> THEN inv
  ELSE LET item == Head(items)
           found == {i \in DOMAIN movements :
                       movements[i].product_id = item.product_id}
       IN IF item.product_id # NULL /\ Cardinality(found) = 1
          THEN LET m == movements[FirstOf(found)]
                   id == MovementInventoryId(m)
               IN IF id \in DOMAIN inv
                  THEN RestoreInventory(
                         [inv EXCEPT ![id].stock_quantity = @ + item.quantity],
                         Tail(items), movements)
                  ELSE RestoreInventory(inv, Tail(items), movements)
          ELSE RestoreInventory(inv, Tail(items), movements)

\* a deletion step takes effect unless its call returns an error
\* the first failing step ends the deletion (mutant of StepDone)
StepDoneUntilFailure(step, fail) == fail \notin DeletionStepNames

StepDone(step, fail) == fail # step

handleDeleteOrder(o, fail, failAcct) ==
  /\ o \in DOMAIN orders
  /\ orders[o].is_active
  /\ LET detected == DetectedTransactions(o)
         items == order_items[o]
         movementsLeft == IF stock_movements[o] # <<>>
                             /\ StepDone("stock_movements", fail)
                          THEN <<>> ELSE stock_movements[o]
         txLeft == IF detected # {} /\ StepDone("transactions", fail)
                   THEN KeepRows(transactions, DOMAIN transactions \ detected, 1)
                   ELSE transactions
         recalculated ==
           IF fail = "recalc_read" THEN accounts
           ELSE recalculateAllAccountBalances(accounts, txLeft,
                  IF fail = "recalc_update" THEN {failAcct} ELSE {})
     IN
     /\ stock_movements' = [stock_movements EXCEPT ![o] = movementsLeft]
     /\ transactions' = txLeft
     /\ worker_payment_records' =
          [worker_payment_records EXCEPT
             ![o] = IF StepDone("worker_payment_records", fail) THEN 0 ELSE @]
     /\ profit_distributions' =
          [profit_distributions EXCEPT
             ![o] = IF StepDone("profit_distributions", fail) THEN 0 ELSE @]
     /\ order_items' =
          [order_items EXCEPT
             ![o] = IF StepDone("order_items", fail) THEN <<>> ELSE @]
     /\ inventory' = RestoreInventory(inventory, items, movementsLeft)
     /\ accounts' = recalculated
     /\ orders' = IF fail = "deactivate" THEN orders
                  ELSE [orders EXCEPT ![o].is_active = FALSE]
     /\ outcome' =
          [Report("deleteOrder", o,
                  IF fail = "deactivate" THEN "error" ELSE "success") EXCEPT
             !.detected = {transactions[i] : i \in detected},
             !.recalc = IF fail \in {"recalc_read", "recalc_update"}
                        THEN fail ELSE "ok"]
  /\ UNCHANGED <<workers, customers, order_sequence, pc, pendingOrder, issued,
                 reissued, invocations, invokedWith, sinceReset>>
  /\ UNCHANGED settingsAndAttendance

\* ------------------------------------------------------------------ resets
ConfirmTexts == {"RESET", "RESET ALL", "", "reset"}

\* the confirm dialog alone lets the reset through (mutant of ResetConfirmed)
ResetConfirmedByDialog(typed, expected, confirmed) == confirmed

\* the typed text !== the expected one returns, and so does a declined confirm
ResetConfirmed(typed, expected, confirmed) == typed = expected /\ confirmed

MonthlySteps == {"orders", "transactions", "profit_distributions",
                 "worker_payment_records", "worker_daily_work", "workers",
                 "reset_order_sequence"}

AllDataSteps == MonthlySteps \cup {"accounts", "stock_movements", "customers"}

\* the update also blanks the name (mutant of ResetWorkerTotals)
ResetWorkerRows(ws) ==
  [w \in DOMAIN ws |->
     [ws[w] EXCEPT !.name = NULL, !.total_earned_minor = 0,
                   !.total_advances_minor = 0, !.current_balance_minor = 0]]

\* .update({total_earned_minor: 0, ...}).eq('is_active', true)
ResetWorkerTotals(ws) ==
  [w \in DOMAIN ws |->
     IF ws[w].is_active
     THEN [ws[w] EXCEPT !.total_earned_minor = 0, !.total_advances_minor = 0,
                        !.current_balance_minor = 0]
     ELSE ws[w]]

\* .update({is_active: false}).neq('id', <nil uuid>)
DeactivateAllOrders(rows) == [i \in DOMAIN rows |-> [rows[i] EXCEPT !.is_active = FALSE]]

\* the store calls the two resets share, in the order of the code
ResetCommon(fail) ==
  /\ orders' = IF fail # "orders" THEN DeactivateAllOrders(orders) ELSE orders
  /\ transactions' = IF fail # "transactions" THEN <<>> ELSE transactions
  /\ profit_distributions' = IF fail # "profit_distributions"
                             THEN [o \in OrderIds |-> 0]
                             ELSE profit_distributions
  /\ worker_payment_records' = IF fail # "worker_payment_records"
                               THEN [o \in OrderIds |-> 0]
                               ELSE worker_payment_records
  /\ worker_daily_work' = IF fail # "worker_daily_work" THEN <<>>
                          ELSE worker_daily_work
  /\ workers' = IF fail # "workers" THEN ResetWorkerTotals(workers) ELSE workers
  /\ order_sequence' = IF fail # "reset_order_sequence" THEN 0 ELSE order_sequence

\* resetOrderSequence throws on an error, every other result is not looked at
ResetReport(op, fail) ==
  Report(op, 0, IF fail = "reset_order_sequence" THEN "error" ELSE "success")

handleMonthlyReset(typed, confirmed, fail) ==
  /\ IF ~ResetConfirmed(typed, "RESET", confirmed)
     THEN /\ outcome' = Report("monthlyReset", 0, "rejected")
          /\ UNCHANGED <<orders, transactions, profit_distributions,
                         worker_payment_records, worker_daily_work, workers,
                         order_sequence, sinceReset>>
     ELSE /\ ResetCommon(fail)
          /\ outcome' = ResetReport("monthlyReset", fail)
          /\ sinceReset' = (fail # "reset_order_sequence")
  /\ UNCHANGED <<accounts, order_items, stock_movements, inventory, customers,
                 pc, pendingOrder, issued, reissued, invocations, invokedWith>>
  /\ UNCHANGED <<system_settings, attendance, conversion>>

handleAllDataReset(typed, confirmed, fail) ==
  /\ IF ~ResetConfirmed(typed, "RESET ALL", confirmed)
     THEN /\ outcome' = Report("allDataReset", 0, "rejected")
          /\ UNCHANGED <<accounts, orders, transactions, profit_distributions,
                         stock_movements, worker_payment_records,
                         worker_daily_work, workers, customers, order_sequence,
                         sinceReset>>
     ELSE /\ accounts' = IF fail # "accounts"
                         THEN [a \in DOMAIN accounts |->
                                 IF accounts[a].is_active
                                 THEN [accounts[a] EXCEPT !.balance_minor = 0]
                                 ELSE accounts[a]]
                         ELSE accounts
          /\ ResetCommon(fail)
          /\ stock_movements' = IF fail # "stock_movements"
                                THEN [o \in OrderIds |-> <<>>]
                                ELSE stock_movements
          /\ customers' = IF fail # "customers"
                          THEN [c \in DOMAIN customers |->
                                  IF customers[c].is_active
                                  THEN [customers[c] EXCEPT !.total_spent_minor = 0]
                                  ELSE customers[c]]
                          ELSE customers
          /\ outcome' = ResetReport("allDataReset", fail)
          /\ sinceReset' = (fail # "reset_order_sequence")
  /\ UNCHANGED <<order_items, inventory, pc, pendingOrder, issued, reissued,
                 invocations, invokedWith>>
  /\ UNCHANGED <<system_settings, attendance, conversion>>

\* ------------------------------------------------------------ soft deletes
\* Workers.confirmDeleteWorker
confirmDeleteWorker(w) ==
  /\ workers[w].is_active
  /\ workers' = [workers EXCEPT ![w].is_active = FALSE]
  /\ outcome' = Report("deleteWorker", 0, "success")
  /\ UNCHANGED <<accounts, transactions, orders, order_items,
                 worker_payment_records, profit_distributions, stock_movements,
                 inventory, customers, order_sequence, pc, pendingOrder, issued,
                 reissued, invocations, invokedWith, sinceReset>>
  /\ UNCHANGED settingsAndAttendance

\* Customers.handleDeleteCustomer
handleDeleteCustomer(c) ==
  /\ customers[c].is_active
  /\ customers' = [customers EXCEPT ![c].is_active = FALSE]
  /\ outcome' = Report("deleteCustomer", 0, "success")
  /\ UNCHANGED <<accounts, transactions, orders, order_items,
                 worker_payment_records, profit_distributions, stock_movements,
                 inventory, workers, order_sequence, pc, pendingOrder, issued,
                 reissued, invocations, invokedWith, sinceReset>>
  /\ UNCHANGED settingsAndAttendance

AbsoluteValue(x) == IF x < 0 THEN 0 - x ELSE x

\* ------------------------------------------------------------------- money
\* Amounts are JavaScript numbers: IEEE 754 doubles.  A double is written
\* [sign, mant, scale] and stands for sign * mant * 2^(-scale), where mant is a
\* sequence of binary digits, least significant first, Precision digits long
\* (empty for zero).  Products and quotients are computed exactly on digit
\* sequences and then rounded to the nearest double, ties to even.
Precision == 53

RECURSIVE BitsOf(_)
BitsOf(n) == IF n = 0 THEN <<>> ELSE <<n % 2>> \o BitsOf(n \div 2)

RECURSIVE NumberOf(_)
NumberOf(bits) ==
  IF bits = <<>> THEN 0 ELSE Head(bits) + 2 * NumberOf(Tail(bits))

\* without its high zero digits
RECURSIVE Trim(_)
Trim(bits) ==
  IF bits = <<>> \/ bits[Len(bits)] = 1 THEN bits
  ELSE Trim(SubSeq(bits, 1, Len(bits) - 1))

Reverse(seq) == [i \in 1..Len(seq) |-> seq[Len(seq) + 1 - i]]

ShiftLeft(bits, n) == [i \in 1..n |-> 0] \o bits

ShiftRight(bits, n) ==
  IF n >= Len(bits) THEN <<>> ELSE SubSeq(bits, n + 1, Len(bits))

RECURSIVE AddFrom(_, _, _, _)
AddFrom(a, b, i, carry) ==
  IF i > Len(a) /\ i > Len(b)
  THEN IF carry = 1 THEN <<1>> ELSE <<>>
  ELSE LET sum == (IF i \in DOMAIN a THEN a[i] ELSE 0)
                  + (IF i \in DOMAIN b THEN b[i] ELSE 0) + carry
       IN <<sum % 2>> \o AddFrom(a, b, i + 1, sum \div 2)

Add(a, b) == AddFrom(a, b, 1, 0)

\* 100 = 64 + 32 + 4
TimesHundred(bits) ==
  Add(Add(ShiftLeft(bits, 6), ShiftLeft(bits, 5)), ShiftLeft(bits, 2))

\* the double nearest to sign * bits * 2^(-scale), ties to even
RoundToDouble(sign, bits, scale) ==
  LET t == Trim(bits)
      len == Len(t)
  IN IF len = 0 THEN [sign |-> sign, mant |-> <<>>, scale |-> 0]
     ELSE IF len <= Precision
     THEN [sign |-> sign, mant |-> ShiftLeft(t, Precision - len),
           scale |-> scale + Precision - len]
     ELSE LET d == len - Precision
              kept == ShiftRight(t, d)
              sticky == \E i \in 1..(d - 1) : t[i] = 1
              up == t[d] = 1 /\ (sticky \/ kept[1] = 1)
              r == IF up THEN Add(kept, <<1>>) ELSE kept
          IN IF Len(r) > Precision
             THEN [sign |-> sign, mant |-> ShiftRight(r, 1), scale |-> scale - d - 1]
             ELSE [sign |-> sign, mant |-> r, scale |-> scale - d]

\* long division: the binary digits of the quotient, most significant first,
\* two digits past the precision, with the count of fractional digits
RECURSIVE QuotientDigits(_, _, _, _)
QuotientDigits(r, d, acc, frac) ==
  IF Len(acc) >= Precision + 2
  THEN [digits |-> acc, frac |-> frac, rest |-> r]
  ELSE LET b == IF 2 * r >= d THEN 1 ELSE 0
       IN QuotientDigits(2 * r - b * d, d,
                         IF acc = <<>> /\ b = 0 THEN acc ELSE Append(acc, b),
                         frac + 1)

\* the double nearest to sign * n / d, as the division of two doubles that
\* hold the integers n and d gives it, and as a decimal literal is read
Divide(sign, n, d) ==
  IF n = 0 THEN [sign |-> sign, mant |-> <<>>, scale |-> 0]
  ELSE LET q == QuotientDigits(n % d, d, Reverse(BitsOf(n \div d)), 0)
           low == Reverse(q.digits)
           sticky == IF q.rest # 0 THEN 1 ELSE low[1]
       IN RoundToDouble(sign, <<sticky>> \o Tail(low), q.frac)

\* the fractional part is cut off (mutant of MathRound)
MathTrunc(sign, bits, scale) ==
  IF scale <= 0 THEN sign * NumberOf(ShiftLeft(bits, 0 - scale))
  ELSE sign * NumberOf(ShiftRight(bits, scale))

\* Math.round: the integer nearest to sign * bits * 2^(-scale), a half going up
MathRound(sign, bits, scale) ==
  IF scale <= 0 THEN sign * NumberOf(ShiftLeft(bits, 0 - scale))
  ELSE LET sum == Add(bits, ShiftLeft(<<1>>, scale - 1))
           whole == NumberOf(ShiftRight(sum, scale))
           half == \A i \in 1..scale : i \in DOMAIN sum => sum[i] = 0
       IN IF sign > 0 THEN whole
          ELSE 0 - (IF half THEN whole - 1 ELSE whole)

\* toMinor = Math.round(amount * 100)
toMinor(amount) ==
  LET product == RoundToDouble(amount.sign, TimesHundred(amount.mant), amount.scale)
  IN MathRound(product.sign, product.mant, product.scale)

\* fromMinor = minor / 100
fromMinor(minor) ==
  Divide(IF minor < 0 THEN 0 - 1 ELSE 1, AbsoluteValue(minor), 100)

\* the number a decimal text with three decimals is read as
Thousandths(k) == Divide(IF k < 0 THEN 0 - 1 ELSE 1, AbsoluteValue(k), 1000)

\* ---------------------------------------------------------------- settings
\* profit shares are percentages; the model counts them in thousandths of a
\* percent, so 33.33 is 33330 and the tolerance 0.01 is 10
SharePoint == 1000
ShareInputs == {0, 10000, 20000, 30000, 33330, 33335, 33340, 40000, 50000, 60000,
                70000, 100000}

\* what floating-point addition may shift the total by: less than any step
\* of the inputs, counted in half units of the model
FloatErrors == {0 - 1, 0, 1}

ShareTotal(shares) ==
  shares.ashan_share + shares.praveen_share + shares.business_share

\* the form saves whatever the three fields hold (mutant of isValid)
isValidAlways(shares, floatError) == TRUE

\* ProfitSharingTab: isValid = Math.abs(total - 100) < 0.01
isValid(shares, floatError) ==
  AbsoluteValue(2 * (ShareTotal(shares) - 100 * SharePoint) + floatError)
    < 2 * (SharePoint \div 100)

\* saveSetting: the row of the key is updated or inserted; the result of the
\* write is not looked at and 'Settings saved successfully!' is shown
saveSetting(key, value, writeOk) ==
  /\ system_settings' =
       IF writeOk
       THEN [k \in DOMAIN system_settings \cup {key} |->
               IF k = key THEN value ELSE system_settings[k]]
       ELSE system_settings
  /\ outcome' = Report("saveSetting", 0, "success")

\* ProfitSharingTab.handleSave
ProfitSharingTabHandleSave(shares, floatError, writeOk) ==
  /\ IF ~isValid(shares, floatError)
     THEN \* 'Total profit share must equal 100%'
          /\ outcome' = Report("saveSetting", 0, "rejected")
          /\ UNCHANGED system_settings
     ELSE saveSetting("profit_sharing", shares, writeOk)
  /\ UNCHANGED <<accounts, transactions, orders, order_items,
                 worker_payment_records, profit_distributions, stock_movements,
                 inventory, workers, customers, order_sequence, pc, pendingOrder,
                 issued, reissued, invocations, invokedWith, sinceReset,
                 worker_daily_work, attendance, conversion>>

\* ------------------------------------------------------------------- Init
ZeroBalances == [a \in Accounts |-> [is_active |-> TRUE, balance_minor |-> 0]]

\* an order as handleSaveOrder stores it with one custom item
DraftOrder(n) == [order_number |-> FormatOrderNumber(n), status |-> "draft",
                  is_active |-> TRUE]

\* the tables of a store holding the given accounts, ledger and orders; earned
\* and spent are the totals the backend keeps for the worker and the customer
InitTables(accts, ledger, rows, earned, spent) ==
  /\ accounts = accts
  /\ transactions = ledger
  /\ orders = rows
  /\ order_items = [o \in OrderIds |->
                      IF o \in DOMAIN rows THEN <<CustomItem>> ELSE <<>>]
  /\ worker_payment_records = [o \in OrderIds |->
                                 IF o \in DOMAIN rows THEN 1 ELSE 0]
  /\ profit_distributions = [o \in OrderIds |-> 0]
  /\ stock_movements = [o \in OrderIds |-> <<>>]
  /\ inventory = <<[product_id |-> "p1", stock_quantity |-> InitStock]>>
  /\ workers = [w \in Workers |->
                  [name |-> w, is_active |-> TRUE, total_earned_minor |-> earned,
                   total_advances_minor |-> 0, current_balance_minor |-> earned]]
  /\ customers = [c \in Customers |->
                    [name |-> c, is_active |-> TRUE, total_spent_minor |-> spent]]
  /\ order_sequence = Len(rows)
  /\ pc = [s \in Sessions |-> "idle"]
  /\ pendingOrder = [s \in Sessions |-> NoPending]
  /\ issued = {rows[i].order_number : i \in DOMAIN rows}
  /\ reissued = FALSE
  /\ invocations = [o \in OrderIds |-> 0]
  /\ invokedWith = {}
  /\ sinceReset = FALSE
  /\ system_settings = NoSettings
  /\ worker_daily_work = <<>>
  /\ attendance = [s \in Sessions |-> NoAttendance]
  /\ outcome = Report("none", 0, "none")

\* the store with no amount in the amount field
InitStore(accts, ledger, rows, earned, spent) ==
  /\ InitTables(accts, ledger, rows, earned, spent)
  /\ conversion = NoConversion

\* the empty store
Init == InitStore(ZeroBalances, <<>>, <<>>, 0, 0)

\* ------------------------------------------------------- specifications
\* Recalculation: the store holds a ledger of up to MaxTx transactions, two
\* active orders and balances left behind by earlier recalculations; deleting
\* an order runs recalculateAllAccountBalances over it, so it runs twice.
LedgerRows ==
  [transaction_type : TransactionTypes, amount_minor : Amounts,
   from_account_id : Accounts \cup {NULL}, to_account_id : Accounts \cup {NULL},
   description : {0}]

StoredByModal ==
  {t \in LedgerRows :
     /\ ModalAccepts(t.transaction_type, t.amount_minor,
                     t.from_account_id, t.to_account_id)
     /\ t.transaction_type = "income" => t.from_account_id = NULL
     /\ t.transaction_type = "expense" => t.to_account_id = NULL}

Ledgers == UNION {[1..n -> StoredByModal] : n \in 0..MaxTx}

InitRecalc ==
  \E a2Active \in BOOLEAN, b1 \in {0, InitBalance}, b2 \in {0, InitBalance},
     ledger \in Ledgers :
    InitStore([a \in Accounts |->
                 [is_active |-> (a = "a1" \/ a2Active),
                  balance_minor |-> IF a = "a1" THEN b1 ELSE b2]],
              ledger, <<DraftOrder(1), DraftOrder(2)>>, 0, 0)

NextRecalc ==
  \/ \E o \in OrderIds, fail \in {"none", "recalc_read"} :
       handleDeleteOrder(o, fail, "a1")
  \/ \E o \in OrderIds, failAcct \in Accounts :
       handleDeleteOrder(o, "recalc_update", failAcct)

SpecRecalc == InitRecalc /\ [][NextRecalc]_vars

\* Profit: orders are created with every status and payment, and two sessions
\* edit the first order with every status and payment; the items are custom
\* ones and the sequence always answers.
NextProfit ==
  \/ \E status \in StatusOptions, total \in OrderTotals, paid \in PaidAmounts :
       handleSaveOrder("s1", 0, status, total, paid, <<CustomItem>>, TRUE, 7, 3)
  \/ \E s \in Sessions, status \in StatusOptions, total \in OrderTotals,
        paid \in PaidAmounts :
       handleSaveOrder(s, 1, status, total, paid, <<CustomItem>>, TRUE, 7, 3)
  \/ \E s \in Sessions : handleSaveOrderInvoke(s)

SpecProfit == Init /\ [][NextProfit]_vars

\* Numbers: orders are created and the modal is opened with the sequence
\* answering or not, and the resets restart the sequence.
NextNumbers ==
  \/ \E rpcOk \in BOOLEAN, stamp \in FallbackStamps, suffix \in FallbackSuffixes :
       OrderModalOpen(rpcOk, stamp, suffix)
  \/ \E rpcOk \in BOOLEAN, stamp \in FallbackStamps, suffix \in FallbackSuffixes :
       handleSaveOrder("s1", 0, "draft", 1, 0, <<CustomItem>>, rpcOk, stamp, suffix)
  \/ \E fail \in {"none", "reset_order_sequence"} :
       handleMonthlyReset("RESET", TRUE, fail)
  \/ handleAllDataReset("RESET ALL", TRUE, "none")

SpecNumbers == Init /\ [][NextNumbers]_vars

\* Cascade: orders with product and custom items, transactions that name an
\* order or none, and deletions in which any one store call may fail.
NextCascade ==
  \/ \E descr \in {0} \cup DOMAIN orders :
       handleSaveTransaction("income", 1, NULL, "a1", descr, TRUE)
  \/ \E i \in 1..MaxTx : handleDeleteTransaction(i, TRUE)
  \/ \E items \in ItemLists :
       handleSaveOrder("s1", 0, "completed", 1, 1, items, TRUE, 7, 3)
  \/ handleSaveOrderInvoke("s1")
  \/ \E o \in OrderIds, fail \in DeleteFailures :
       handleDeleteOrder(o, fail, "a1")

SpecCascade == Init /\ [][NextCascade]_vars

\* Resets: both resets with every input, over a store in which each table
\* they touch holds rows and the worker and the customer carry totals.
InitTotals ==
  \E earned \in {0, InitTotal}, spent \in {0, InitTotal} :
    InitStore(ZeroBalances, <<>>, <<>>, earned, spent)

NextReset ==
  \/ handleSaveTransaction("income", 1, NULL, "a1", 0, TRUE)
  \/ handleSaveOrder("s1", 0, "completed", 1, 1, <<ProductItem>>, TRUE, 7, 3)
  \/ handleSaveOrderInvoke("s1")
  \/ \E typed \in ConfirmTexts, confirmed \in BOOLEAN,
        fail \in MonthlySteps \cup {"none"} :
       handleMonthlyReset(typed, confirmed, fail)
  \/ \E typed \in ConfirmTexts, confirmed \in BOOLEAN,
        fail \in AllDataSteps \cup {"none"} :
       handleAllDataReset(typed, confirmed, fail)
  \/ \E w \in Workers : confirmDeleteWorker(w)
  \/ \E c \in Customers : handleDeleteCustomer(c)

SpecReset == InitTotals /\ [][NextReset]_vars

\* ------------------------------------------------------------------ claims
\* C1: after any sequence of completed operations every account's
\* balance_minor equals the signed sum of the stored transactions.
LedgerInvariant ==
  \A a \in Accounts : accounts[a].balance_minor = SignedSum(transactions, a)

\* C2: whenever handleDeleteOrder ends with the 'ORDER DELETED COMPLETELY'
\* message for order O, O is inactive and the store holds no order item, worker
\* payment record, profit distribution or stock movement of O and none of the
\* transactions detected as connected to O.
DeletedCompletely ==
  (outcome.op = "deleteOrder" /\ outcome.result = "success") =>
    LET o == outcome.order
    IN /\ ~orders[o].is_active
       /\ order_items[o] = <<>>
       /\ worker_payment_records[o] = 0
       /\ profit_distributions[o] = 0
       /\ stock_movements[o] = <<>>
       /\ \A i \in DOMAIN transactions : transactions[i] \notin outcome.detected

\* what the stock movements of order o took from inventory row i
RECURSIVE TakenBy(_, _)
TakenBy(movements, product) ==
  IF movements = <<>> THEN 0
  ELSE (IF Head(movements).product_id = product THEN Head(movements).quantity
        ELSE 0) + TakenBy(Tail(movements), product)

\* C3: a handleDeleteOrder(O) that reports success gives every inventory
\* record back the stock_quantity that saving O took from it.
InventoryRestoredOnDelete ==
  [][\A o \in DOMAIN orders :
       (/\ orders[o].is_active
        /\ ~orders'[o].is_active
        /\ outcome'.op = "deleteOrder"
        /\ outcome'.order = o
        /\ outcome'.result = "success")
       => \A i \in DOMAIN inventory :
            inventory'[i].stock_quantity =
              inventory[i].stock_quantity
                + TakenBy(stock_movements[o], inventory[i].product_id)]_vars

\* C4: when recalculateAllAccountBalances completes without an error, every
\* active account's balance_minor is the signed sum of the stored transactions
\* (+ income to it, - expense from it, -/+ each transfer), whatever the balances
\* were before, and a second call in a row changes nothing.
RecalculationIsSignedSum ==
  (outcome.op = "deleteOrder" /\ outcome.recalc = "ok") =>
    /\ \A a \in Accounts :
         accounts[a].is_active =>
           accounts[a].balance_minor = SignedSum(transactions, a)
    /\ recalculateAllAccountBalances(accounts, transactions, {}) = accounts

\* a recalculation over a two-row ledger with a transfer left an account negative
RecalculationWitness ==
  /\ outcome.op = "deleteOrder"
  /\ outcome.recalc = "ok"
  /\ Len(transactions) = 2
  /\ \E i \in DOMAIN transactions : transactions[i].transaction_type = "transfer"
  /\ \E a \in Accounts : accounts[a].is_active /\ accounts[a].balance_minor < 0

\* C5: over any sequence or interleaving of handleSaveOrder calls
\* 'distribute-profit' is invoked at most once for an order.
DistributedAtMostOnce == \A o \in OrderIds : invocations[o] <= 1

\* C6: 'distribute-profit' is invoked, and awaited, only for a save whose status
\* is 'completed' and whose total_amount_minor - paid_amount_minor is 0.
DistributionOnlyWhenCompletedAndPaid ==
  /\ \A r \in invokedWith :
       r.status = "completed" /\ r.total_amount_minor - r.paid_amount_minor = 0
  /\ \A s \in Sessions :
       pc[s] = "invoke" =>
         /\ pendingOrder[s].status = "completed"
         /\ pendingOrder[s].total_amount_minor
              - pendingOrder[s].paid_amount_minor = 0

\* profit was distributed for an order, and a later save of it with another
\* status went through without a new invocation
DistributionWitness ==
  /\ outcome.op = "saveOrder"
  /\ outcome.result = "success"
  /\ outcome.order \in DOMAIN orders
  /\ orders[outcome.order].status = "in_progress"
  /\ invocations[outcome.order] = 1
  /\ \A s \in Sessions : pc[s] = "idle"

FirstNumberAfterReset ==
  (/\ outcome.op = "saveOrder"
   /\ outcome.afterReset
   /\ outcome.number.suffix = NoSuffix)
  => /\ outcome.result \in {"success", "pending"}
     /\ outcome.number = FormatOrderNumber(1)

\* C9: after handleMonthlyReset's success alert the store has no active order,
\* no order items, transactions, profit distributions or worker payment
\* records, and every worker's totals are 0.
MonthlyResetClears ==
  (outcome.op = "monthlyReset" /\ outcome.result = "success") =>
    /\ \A o \in DOMAIN orders : ~orders[o].is_active
    /\ \A o \in OrderIds : order_items[o] = <<>>
    /\ transactions = <<>>
    /\ \A o \in OrderIds : profit_distributions[o] = 0
    /\ \A o \in OrderIds : worker_payment_records[o] = 0
    /\ \A w \in Workers :
         /\ workers[w].total_earned_minor = 0
         /\ workers[w].total_advances_minor = 0
         /\ workers[w].current_balance_minor = 0

\* C10: after handleAllDataReset's success alert every account's balance_minor
\* is 0, no transactions, profit distributions or stock movements remain, no
\* order is active and every worker's and customer's totals are 0.
AllDataResetClears ==
  (outcome.op = "allDataReset" /\ outcome.result = "success") =>
    /\ \A a \in Accounts : accounts[a].balance_minor = 0
    /\ transactions = <<>>
    /\ \A o \in OrderIds : profit_distributions[o] = 0
    /\ \A o \in OrderIds : stock_movements[o] = <<>>
    /\ \A o \in DOMAIN orders : ~orders[o].is_active
    /\ \A w \in Workers :
         /\ workers[w].total_earned_minor = 0
         /\ workers[w].total_advances_minor = 0
         /\ workers[w].current_balance_minor = 0
    /\ \A c \in Customers : customers[c].total_spent_minor = 0

\* ------------------------------------------------- settings and both resets
\* Settings: profit shares are saved, orders with a product item are created,
\* workers and customers are removed and both resets run, typed and confirmed
\* or not, with any one of their store calls failing.
ProfitShares ==
  [ashan_share : ShareInputs, praveen_share : ShareInputs,
   business_share : ShareInputs]

EqualShares == [ashan_share |-> 33330, praveen_share |-> 33330,
                business_share |-> 33340]

InitSettings ==
  \E balance \in {0, InitBalance} :
    InitStore([a \in Accounts |-> [is_active |-> TRUE, balance_minor |-> balance]],
              <<>>, <<>>, InitTotal, InitTotal)

NextSettings ==
  \/ ProfitSharingTabHandleSave(EqualShares, 0, TRUE)
  \/ handleSaveOrder("s1", 0, "draft", 1, 0, <<ProductItem>>, TRUE, 7, 3)
  \/ \E typed \in ConfirmTexts, confirmed \in BOOLEAN,
        fail \in MonthlySteps \cup {"none"} :
       handleMonthlyReset(typed, confirmed, fail)
  \/ \E typed \in ConfirmTexts, confirmed \in BOOLEAN,
        fail \in AllDataSteps \cup {"none"} :
       handleAllDataReset(typed, confirmed, fail)
  \/ \E w \in Workers : confirmDeleteWorker(w)
  \/ \E c \in Customers : handleDeleteCustomer(c)

SpecSettings == InitSettings /\ [][NextSettings]_vars

\* the fields of a worker or customer row that are master data
MasterData(row) == [name |-> row.name, is_active |-> row.is_active]

Stage(status) ==
  CASE status = "draft" -> 1
    [] status = "confirmed" -> 2
    [] status = "in_progress" -> 3
    [] status = "completed" -> 4
    [] OTHER -> 5

NextShares ==
  \E shares \in ProfitShares, floatError \in FloatErrors, writeOk \in BOOLEAN :
    ProfitSharingTabHandleSave(shares, floatError, writeOk)

SpecShares == Init /\ [][NextShares]_vars

\* C13: every profit_sharing value ProfitSharingTab.handleSave writes has shares
\* whose sum is within 0.01 of 100, and a handleSave that finds the sum off
\* writes nothing.
ProfitSharesSumTo100 ==
  /\ []("profit_sharing" \in DOMAIN system_settings =>
          AbsoluteValue(ShareTotal(system_settings.profit_sharing)
                          - 100 * SharePoint) <= SharePoint \div 100)
  /\ [][(outcome'.op = "saveSetting" /\ outcome'.result = "rejected") =>
          system_settings' = system_settings]_vars

\* shares that do not add up to exactly 100 were written, and a later save with
\* the sum off was turned down and left them in place
ProfitSharesWitness ==
  /\ "profit_sharing" \in DOMAIN system_settings
  /\ ShareTotal(system_settings.profit_sharing) = 100 * SharePoint + 5
  /\ outcome.op = "saveSetting"
  /\ outcome.result = "rejected"

\* ------------------------------------------------------------- transactions
\* Transactions: the modal is submitted with every type and every choice of
\* accounts, a field left over from another type included; rows are deleted.
NextTransactions ==
  \/ \E type \in TransactionTypes, amount \in Amounts,
        from \in Accounts \cup {NULL}, to \in Accounts \cup {NULL},
        insertOk \in BOOLEAN :
       handleSaveTransaction(type, amount, from, to, 0, insertOk)
  \/ \E i \in 1..MaxTx, deleteOk \in BOOLEAN : handleDeleteTransaction(i, deleteOk)

SpecTransactions == Init /\ [][NextTransactions]_vars

\* C14: every transaction created through TransactionModal and
\* handleSaveTransaction has the accounts its type needs: an income a
\* to_account_id, an expense a from_account_id, a transfer both.
TransactionsReferenceAccounts ==
  \A i \in DOMAIN transactions :
    LET t == transactions[i]
    IN /\ t.transaction_type = "income" => t.to_account_id \in Accounts
       /\ t.transaction_type = "expense" => t.from_account_id \in Accounts
       /\ t.transaction_type = "transfer" =>
            t.from_account_id \in Accounts /\ t.to_account_id \in Accounts

\* a transfer and an income are stored, the income without a from account
TransactionsReferenceWitness ==
  /\ Len(transactions) = 2
  /\ transactions[1].transaction_type = "transfer"
  /\ transactions[2].transaction_type = "income"
  /\ transactions[2].from_account_id = NULL
  /\ outcome.op = "saveTransaction"
  /\ outcome.result = "success"


\* ------------------------------------------------------------------ C15
\* Money: the amount field holds a decimal amount in thousandths, or a stored
\* minor value, of up to MaxMinor either side of zero; the amount is read as a
\* number (or fromMinor turns the minor value into one) and toMinor converts it.
MaxMinor == 1200

InitMoney ==
  \E k \in (0 - MaxMinor)..MaxMinor :
    /\ InitTables(ZeroBalances, <<>>, <<>>, 0, 0)
    /\ conversion = [NoConversion EXCEPT !.input = k]

\* parseFloat of the amount text
ReadAmount ==
  /\ conversion.op = "none"
  /\ conversion' = [conversion EXCEPT !.op = "read",
                                      !.amount = Thousandths(conversion.input)]
  /\ UNCHANGED <<accounts, transactions, orders, order_items,
                 worker_payment_records, profit_distributions, stock_movements,
                 inventory, workers, customers, order_sequence, pc,
                 pendingOrder, issued, reissued, invocations, invokedWith,
                 sinceReset, system_settings, worker_daily_work, attendance,
                 outcome>>

ApplyFromMinor ==
  /\ conversion.op = "none"
  /\ conversion' = [conversion EXCEPT !.op = "fromMinor",
                                      !.amount = fromMinor(conversion.input)]
  /\ UNCHANGED <<accounts, transactions, orders, order_items,
                 worker_payment_records, profit_distributions, stock_movements,
                 inventory, workers, customers, order_sequence, pc,
                 pendingOrder, issued, reissued, invocations, invokedWith,
                 sinceReset, system_settings, worker_daily_work, attendance,
                 outcome>>

ApplyToMinor ==
  /\ conversion.op \in {"read", "fromMinor"}
  /\ conversion' = [conversion EXCEPT
                      !.op = IF conversion.op = "read" THEN "toMinor" ELSE "roundTrip",
                      !.minor = toMinor(conversion.amount)]
  /\ UNCHANGED <<accounts, transactions, orders, order_items,
                 worker_payment_records, profit_distributions, stock_movements,
                 inventory, workers, customers, order_sequence, pc,
                 pendingOrder, issued, reissued, invocations, invokedWith,
                 sinceReset, system_settings, worker_daily_work, attendance,
                 outcome>>

NextMoney == ReadAmount \/ ApplyFromMinor \/ ApplyToMinor

SpecMoney == InitMoney /\ [][NextMoney]_vars

\* C15: toMinor of an amount is an integer nearest to the amount times 100 (no
\* more than half a unit away from it), and toMinor(fromMinor(m)) = m for every
\* minor value m in range.
MinorUnitsAreNearest ==
  /\ conversion.op = "toMinor" =>
       /\ conversion.minor \in Int
       /\ 2 * AbsoluteValue(10 * conversion.minor - conversion.input) <= 10
  /\ conversion.op = "roundTrip" => conversion.minor = conversion.input

\* 1.005 is converted: the product is 100.49999999999999 and 100 is stored
MinorUnitsWitness ==
  /\ conversion.op = "toMinor"
  /\ conversion.input = 1005
  /\ conversion.minor = 100


\* ------------------------------------------------------------------ C16
\* handleSaveTransaction on the data object it is handed.  A text is a
\* sequence of characters; a field that is undefined or null is Undefined.
Undefined == <<"undefined">>

RECURSIVE TrimStart(_)
TrimStart(text) ==
  IF text # <<>> /\ Head(text) = " " THEN TrimStart(Tail(text)) ELSE text

\* String.prototype.trim
StringTrim(text) == Reverse(TrimStart(Reverse(TrimStart(text))))

\* !value for a text field
Falsy(text) == text = Undefined \/ text = <<>>

DigitChars == <<"0", "1", "2", "3", "4", "5", "6", "7", "8", "9">>

RECURSIVE ReadDigits(_, _, _)
ReadDigits(text, value, count) ==
  IF text # <<>> /\ \E d \in 1..10 : DigitChars[d] = Head(text)
  THEN ReadDigits(Tail(text),
                  10 * value + (CHOOSE d \in 1..10 : DigitChars[d] = Head(text)) - 1,
                  count + 1)
  ELSE [value |-> value, count |-> count, rest |-> text]

RECURSIVE PowerOfTen(_)
PowerOfTen(n) == IF n = 0 THEN 1 ELSE 10 * PowerOfTen(n - 1)

NaN == [sign |-> 0, mant |-> <<>>, scale |-> 0]

isNaN(x) == x.sign = 0

\* x <= 0 for a number x
NotPositive(x) == x.sign # 0 /\ (x.sign < 0 \/ x.mant = <<>>)

\* parseFloat: leading blanks are skipped and the longest prefix that is a
\* decimal number (sign, digits, point, digits) is read; NaN if there is none
parseFloat(text) ==
  LET t == TrimStart(text)
      signed == t # <<>> /\ Head(t) \in {"-", "+"}
      whole == ReadDigits(IF signed THEN Tail(t) ELSE t, 0, 0)
      point == whole.rest # <<>> /\ Head(whole.rest) = "."
      frac == IF point THEN ReadDigits(Tail(whole.rest), whole.value, 0)
              ELSE [value |-> whole.value, count |-> 0, rest |-> whole.rest]
  IN IF whole.count + frac.count = 0 THEN NaN
     ELSE Divide(IF signed /\ Head(t) = "-" THEN 0 - 1 ELSE 1,
                 frac.value, PowerOfTen(frac.count))

\* /^[0-9a-f]{8}-[0-9a-f]{4}-[1-5][0-9a-f]{3}-[89ab][0-9a-f]{3}-[0-9a-f]{12}$/i
uuidRegex(text) ==
  /\ Len(text) = 36
  /\ \A i \in 1..36 :
       IF i \in {9, 14, 19, 24} THEN text[i] = "-"
       ELSE IF i = 15 THEN text[i] \in {"1", "2", "3", "4", "5"}
       ELSE IF i = 20 THEN text[i] \in {"8", "9", "a", "b", "A", "B"}
       ELSE text[i] \in {"0", "1", "2", "3", "4", "5", "6", "7", "8", "9",
                          "a", "b", "c", "d", "e", "f",
                          "A", "B", "C", "D", "E", "F"}

Repeat(c, n) == [i \in 1..n |-> c]

\* the id of an account row: a version 4 UUID
AccountUuid(a) ==
  LET c == IF a = "a1" THEN "1" ELSE "2"
  IN Repeat(c, 8) \o <<"-">> \o Repeat(c, 4) \o <<"-", "4">> \o Repeat(c, 3)
       \o <<"-", "a">> \o Repeat(c, 3) \o <<"-">> \o Repeat(c, 12)

TypeTexts == [income |-> <<"i", "n", "c", "o", "m", "e">>, expense |-> <<"e", "x", "p", "e", "n", "s", "e">>, transfer |-> <<"t", "r", "a", "n", "s", "f", "e", "r">>]

validTypes == {TypeTexts[t] : t \in TransactionTypes}

\* every id is dropped (mutant of CleanAccountId)
CleanAccountIdNone(text) == Undefined

\* from_account_id / to_account_id of the clean object
CleanAccountId(text) ==
  IF ~Falsy(text) /\ StringTrim(text) # <<>> /\ text # <<"n", "u", "l", "l">>
  THEN StringTrim(text) ELSE Undefined

\* the error handleSaveTransaction throws for the data, "none" if it goes on to
\* write, with the row it writes
Validate(data) ==
  LET type == StringTrim(data.transaction_type)
      from == CleanAccountId(data.from_account_id)
      to == CleanAccountId(data.to_account_id)
      amount == parseFloat(StringTrim(data.amount))
      amountMinor == toMinor(amount)
      message ==
        IF Falsy(data.transaction_type) THEN "Transaction type is required"
        ELSE IF \/ Falsy(data.amount)
                \/ isNaN(parseFloat(data.amount))
                \/ NotPositive(parseFloat(data.amount))
             THEN "Valid amount is required"
        ELSE IF Falsy(data.category) THEN "Category is required"
        ELSE IF from # Undefined /\ ~uuidRegex(from) THEN "Invalid from account ID format"
        ELSE IF to # Undefined /\ ~uuidRegex(to) THEN "Invalid to account ID format"
        ELSE IF type \notin validTypes THEN "Invalid transaction type"
        ELSE IF NotPositive(amount) THEN "Amount must be greater than zero"
        ELSE IF amountMinor <= 0 THEN "Invalid amount after conversion"
        ELSE "none"
      account(id) == IF id = Undefined THEN NULL
                     ELSE IF \E a \in Accounts : AccountUuid(a) = id
                          THEN CHOOSE a \in Accounts : AccountUuid(a) = id
                          ELSE "unknown"
  IN [message |-> message,
      row |-> IF message # "none" THEN NULL
              ELSE [transaction_type |-> CHOOSE t \in TransactionTypes : TypeTexts[t] = type,
                    amount_minor |-> amountMinor,
                    from_account_id |-> account(from),
                    to_account_id |-> account(to),
                    description |-> 0]]

\* rows the forms may add to the table
MaxSaved == 1

\* a form filled in correctly, and the forms that differ from it in the type,
\* the amount, the category or the accounts
FilledForm ==
  [id |-> 0, transaction_type |-> <<"i", "n", "c", "o", "m", "e">>, amount |-> <<"1", "2", ".", "5">>,
   category |-> <<"s", "a", "l", "e", "s">>, from_account_id |-> Undefined,
   to_account_id |-> AccountUuid("a1")]

FormInputs ==
  {[FilledForm EXCEPT !.transaction_type = t, !.id = i] :
     t \in {Undefined, <<>>, <<"i", "n", "c", "o", "m", "e">>,
            <<"e", "x", "p", "e", "n", "s", "e">>,
            <<"t", "r", "a", "n", "s", "f", "e", "r">>,
            <<" ", "i", "n", "c", "o", "m", "e", " ">>,
            <<"r", "e", "f", "u", "n", "d">>, <<"I", "n", "c", "o", "m", "e">>},
     i \in 0..1}
    \cup {[FilledForm EXCEPT !.amount = a] :
            a \in {Undefined, <<>>, <<"a", "b", "c">>, <<"0">>, <<"-", "5">>,
                   <<"0", ".", "0", "0", "1">>, <<"0", ".", "0", "0", "4">>,
                   <<"0", ".", "0", "0", "5">>, <<"1", "2", ".", "5">>,
                   <<" ", "7", " ">>, <<"0", ".", "1", "5">>}}
    \cup {[FilledForm EXCEPT !.category = c] :
            c \in {Undefined, <<>>, <<"s", "a", "l", "e", "s">>}}
    \cup {[FilledForm EXCEPT !.from_account_id = f, !.to_account_id = t] :
            f \in {Undefined, <<>>, <<" ", " ">>, <<"n", "u", "l", "l">>,
                   <<"a", "1">>,
                   Repeat("0", 8) \o <<"-">> \o Repeat("0", 4) \o <<"-">>
                     \o Repeat("0", 4) \o <<"-">> \o Repeat("0", 4) \o <<"-">>
                     \o Repeat("0", 12),
                   AccountUuid("a1"), AccountUuid("a2"),
                   <<" ">> \o AccountUuid("a2")},
            t \in {Undefined, <<"a", "1">>, AccountUuid("a1")}}
    \cup {[FilledForm EXCEPT !.transaction_type = t, !.amount = a, !.category = c] :
            t \in {Undefined, <<"r", "e", "f", "u", "n", "d">>},
            a \in {<<"0">>, <<"0", ".", "0", "0", "4">>},
            c \in {<<>>, <<"s", "a", "l", "e", "s">>}}

\* the checks of handleSaveTransaction on each form
Validation == [data \in FormInputs |-> Validate(data)]

ErrorMessages ==
  {"Transaction type is required", "Valid amount is required",
   "Category is required", "Invalid from account ID format",
   "Invalid to account ID format", "Invalid transaction type",
   "Amount must be greater than zero", "Invalid amount after conversion",
   "Database error"}

\* handleSaveTransaction(transactionData): the checks, then the update of the
\* row with the data's id or the insert of a new row
handleSaveTransactionData(data, writeOk) ==
  LET checked == Validation[data]
  IN /\ Len(transactions) < MaxSaved \/ data.id # 0 \/ checked.message # "none"
     /\ IF checked.message # "none"
        THEN /\ UNCHANGED transactions
             /\ outcome' = Report("handleSaveTransaction", 0, checked.message)
        ELSE IF ~writeOk \/ "unknown" \in {checked.row.from_account_id, checked.row.to_account_id}
        THEN /\ UNCHANGED transactions
             /\ outcome' = Report("handleSaveTransaction", 0, "Database error")
        ELSE /\ transactions' =
                  IF data.id = 0 THEN Append(transactions, checked.row)
                  ELSE [i \in DOMAIN transactions |->
                          IF i = data.id THEN checked.row ELSE transactions[i]]
             /\ outcome' = Report("handleSaveTransaction", 0, "success")
     /\ UNCHANGED <<accounts, orders, order_items, worker_payment_records,
                    profit_distributions, stock_movements, inventory, workers,
                    customers, order_sequence, pc, pendingOrder, issued,
                    reissued, invocations, invokedWith, sinceReset>>
     /\ UNCHANGED settingsAndAttendance

NextForm ==
  \/ \E data \in FormInputs, writeOk \in BOOLEAN : handleSaveTransactionData(data, writeOk)
  \/ \E i \in 1..MaxSaved, deleteOk \in BOOLEAN : handleDeleteTransaction(i, deleteOk)

SpecForm == Init /\ [][NextForm]_vars

\* the forms the claim is about: the type missing or not income, expense or
\* transfer; the amount missing, not a number, not above zero or converting to
\* a minor value not above zero; the category missing; a supplied from or to
\* account id that is not a well-formed UUID
InvalidForms ==
  {data \in FormInputs :
     \/ Falsy(data.transaction_type)
     \/ StringTrim(data.transaction_type) \notin {<<"i", "n", "c", "o", "m", "e">>, <<"e", "x", "p", "e", "n", "s", "e">>, <<"t", "r", "a", "n", "s", "f", "e", "r">>}
     \/ Falsy(data.amount)
     \/ isNaN(parseFloat(data.amount))
     \/ NotPositive(parseFloat(data.amount))
     \/ toMinor(parseFloat(data.amount)) <= 0
     \/ Falsy(data.category)
     \/ ~Falsy(data.from_account_id) /\ StringTrim(data.from_account_id) # <<>>
          /\ data.from_account_id # <<"n", "u", "l", "l">>
          /\ ~uuidRegex(StringTrim(data.from_account_id))
     \/ ~Falsy(data.to_account_id) /\ StringTrim(data.to_account_id) # <<>>
          /\ data.to_account_id # <<"n", "u", "l", "l">>
          /\ ~uuidRegex(StringTrim(data.to_account_id))}

\* C16: handleSaveTransaction writes nothing and reports an error when the
\* type is missing or invalid, the amount is missing, not a number, not above
\* zero or converts to a minor value of zero or less, the category is missing,
\* or a supplied account id is not a well-formed UUID.
InvalidFormWritesNothing ==
  [][\A data \in InvalidForms, writeOk \in BOOLEAN :
       handleSaveTransactionData(data, writeOk) =>
         /\ transactions' = transactions
         /\ accounts' = accounts
         /\ outcome'.result \in ErrorMessages]_vars

\* with a row stored, a form whose amount 0.004 converts to 0 has been refused
InvalidFormWitness ==
  /\ Len(transactions) = 1
  /\ outcome.op = "handleSaveTransaction"
  /\ outcome.result = "Invalid amount after conversion"


\* ------------------------------------------------------------------ C17
\* Attendance: worker_daily_work rows are [worker_id, work_date,
\* attendance_type, hours_worked, updated_at]; a row's id is its position.
MaxWorkdays == 2

AttendanceTypes == {"full_day", "half_day", "absent"}

WorkDates == {1, 2}

ZeroHours == Divide(1, 0, 1)
FourHours == Divide(1, 4, 1)
EightHours == Divide(1, 8, 1)

\* every type is given eight hours (mutant of HoursFor)
HoursForFullDay(type) == EightHours

\* attendanceType === 'full_day' ? 8 : attendanceType === 'half_day' ? 4 : 0
HoursFor(type) ==
  IF type = "full_day" THEN EightHours
  ELSE IF type = "half_day" THEN FourHours ELSE ZeroHours

\* .eq('worker_id', workerId).eq('work_date', date).single(): the id of the
\* row when exactly one row matches and the call succeeds, no data otherwise
SingleWorkday(w, date, selectOk) ==
  LET rows == {i \in DOMAIN worker_daily_work :
                 /\ worker_daily_work[i].worker_id = w
                 /\ worker_daily_work[i].work_date = date}
  IN IF selectOk /\ Cardinality(rows) = 1 THEN CHOOSE i \in rows : TRUE ELSE 0

\* handleMarkAttendance up to the answer of its select
handleMarkAttendanceSelect(s, w, date, type, selectOk) ==
  /\ attendance[s].at = "idle"
  /\ attendance' = [attendance EXCEPT ![s] =
       [at |-> "selected", worker_id |-> w, work_date |-> date,
        attendance_type |-> type, existing |-> SingleWorkday(w, date, selectOk)]]
  /\ UNCHANGED <<worker_daily_work, outcome>>
  /\ UNCHANGED <<accounts, transactions, orders, order_items,
                 worker_payment_records, profit_distributions, stock_movements,
                 inventory, workers, customers, order_sequence, pc,
                 pendingOrder, issued, reissued, invocations, invokedWith,
                 sinceReset, system_settings, conversion>>

\* handleMarkAttendance from the answer of its select: the update of the row
\* found or the insert of a new one
handleMarkAttendanceWrite(s, writeOk) ==
  LET a == attendance[s]
  IN /\ a.at = "selected"
     /\ a.existing # 0 \/ ~writeOk \/ Len(worker_daily_work) < MaxWorkdays
     /\ worker_daily_work' =
          IF ~writeOk THEN worker_daily_work
          ELSE IF a.existing # 0
          THEN [i \in DOMAIN worker_daily_work |->
                  IF i = a.existing
                  THEN [worker_daily_work[i] EXCEPT
                          !.attendance_type = a.attendance_type,
                          !.hours_worked = HoursFor(a.attendance_type)]
                  ELSE worker_daily_work[i]]
          ELSE Append(worker_daily_work,
                      [worker_id |-> a.worker_id, work_date |-> a.work_date,
                       attendance_type |-> a.attendance_type,
                       hours_worked |-> HoursFor(a.attendance_type),
                       updated_at |-> "never"])
     /\ attendance' = [attendance EXCEPT ![s] = NoAttendance]
     /\ outcome' = Report("handleMarkAttendance", 0,
                          IF writeOk THEN "success" ELSE "error")
     /\ UNCHANGED <<accounts, transactions, orders, order_items,
                    worker_payment_records, profit_distributions, stock_movements,
                    inventory, workers, customers, order_sequence, pc,
                    pendingOrder, issued, reissued, invocations, invokedWith,
                    sinceReset, system_settings, conversion>>

NextAttendance ==
  \/ \E s \in Sessions, w \in Workers, date \in WorkDates,
        type \in AttendanceTypes, selectOk \in BOOLEAN :
       handleMarkAttendanceSelect(s, w, date, type, selectOk)
  \/ \E s \in Sessions, writeOk \in BOOLEAN : handleMarkAttendanceWrite(s, writeOk)

SpecAttendance == Init /\ [][NextAttendance]_vars

\* C17: there is at most one worker_daily_work record per worker and date,
\* two handleMarkAttendance calls in flight at the same time included.
OneRecordPerWorkerAndDate ==
  \A i, j \in DOMAIN worker_daily_work :
    /\ worker_daily_work[i].worker_id = worker_daily_work[j].worker_id
    /\ worker_daily_work[i].work_date = worker_daily_work[j].work_date
    => i = j

\* ------------------------------------------------------------------ C18
\* Work days: one session marks attendance and edits rows in WorkdayEditModal,
\* whose hours field can be changed after the type has set it.
\* parseFloat(hoursWorked) || 0
EditedHours ==
  [text \in {<<>>, <<"4">>, <<"6", ".", "5">>} |->
     LET x == parseFloat(text)
     IN IF isNaN(x) \/ x.mant = <<>> THEN ZeroHours ELSE x]

\* handleUpdateWorkday with the data of WorkdayEditModal.handleSubmit
handleUpdateWorkday(i, type, text, writeOk) ==
  /\ i \in DOMAIN worker_daily_work
  /\ worker_daily_work' =
       IF writeOk
       THEN [worker_daily_work EXCEPT ![i] =
               [@ EXCEPT !.attendance_type = type,
                         !.hours_worked = EditedHours[text],
                         !.updated_at = "edited"]]
       ELSE worker_daily_work
  /\ outcome' = Report("handleUpdateWorkday", i,
                       IF writeOk THEN "success" ELSE "error")
  /\ UNCHANGED attendance
  /\ UNCHANGED <<accounts, transactions, orders, order_items,
                 worker_payment_records, profit_distributions, stock_movements,
                 inventory, workers, customers, order_sequence, pc,
                 pendingOrder, issued, reissued, invocations, invokedWith,
                 sinceReset, system_settings, conversion>>

NextWorkdays ==
  \/ \E w \in Workers, date \in WorkDates, type \in AttendanceTypes :
       handleMarkAttendanceSelect("s1", w, date, type, TRUE)
  \/ \E writeOk \in BOOLEAN : handleMarkAttendanceWrite("s1", writeOk)
  \/ \E i \in 1..MaxWorkdays, type \in AttendanceTypes, text \in DOMAIN EditedHours,
        writeOk \in BOOLEAN :
       handleUpdateWorkday(i, type, text, writeOk)

SpecWorkdays == Init /\ [][NextWorkdays]_vars

\* C18 as stated: every stored attendance record has hours_worked matching its
\* attendance_type, 8 for full_day, 4 for half_day, 0 for absent.
HoursMatchType ==
  \A i \in DOMAIN worker_daily_work :
    LET row == worker_daily_work[i]
    IN /\ row.attendance_type = "full_day" => row.hours_worked = EightHours
       /\ row.attendance_type = "half_day" => row.hours_worked = FourHours
       /\ row.attendance_type = "absent" => row.hours_worked = ZeroHours

\* C18 amended: the record handleMarkAttendance writes has hours_worked
\* matching its attendance_type (8, 4, 0), and a stored record whose hours do
\* not match its type was last written by handleUpdateWorkday, which stores
\* the hours of the edit form.
MarkedHoursMatchType ==
  /\ [](\A i \in DOMAIN worker_daily_work :
          LET row == worker_daily_work[i]
          IN \/ row.updated_at = "edited"
             \/ /\ row.attendance_type = "full_day" => row.hours_worked = EightHours
                /\ row.attendance_type = "half_day" => row.hours_worked = FourHours
                /\ row.attendance_type = "absent" => row.hours_worked = ZeroHours)
  /\ [][\A s \in Sessions :
          LET marked == IF attendance[s].existing # 0 THEN attendance[s].existing
                        ELSE Len(worker_daily_work) + 1
          IN handleMarkAttendanceWrite(s, TRUE) /\ marked \in DOMAIN worker_daily_work' =>
            LET row == worker_daily_work'[marked]
            IN /\ row.attendance_type = attendance[s].attendance_type
               /\ row.attendance_type = "full_day" => row.hours_worked = EightHours
               /\ row.attendance_type = "half_day" => row.hours_worked = FourHours
               /\ row.attendance_type = "absent" => row.hours_worked = ZeroHours]_vars

\* a full day edited to 6.5 hours, and the other day marked absent with 0 hours
MarkedHoursWitness ==
  /\ Len(worker_daily_work) = 2
  /\ worker_daily_work[1].attendance_type = "full_day"
  /\ worker_daily_work[1].hours_worked = EditedHours[<<"6", ".", "5">>]
  /\ worker_daily_work[2].attendance_type = "absent"
  /\ worker_daily_work[2].hours_worked = ZeroHours
  /\ outcome.op = "handleMarkAttendance"


\* ------------------------------------------------------------------ C19
\* Confirmation: a store with an order, its item, a transaction and totals, on
\* which both resets are attempted with every typed text and either answer to
\* the confirm dialog, and transactions are added.
InitConfirm ==
  \E balance \in {0, InitBalance}, earned \in {0, InitTotal} :
    InitStore([a \in Accounts |-> [is_active |-> TRUE, balance_minor |-> balance]],
              <<[transaction_type |-> "income", amount_minor |-> 1,
                 from_account_id |-> NULL, to_account_id |-> "a1",
                 description |-> 0]>>,
              <<DraftOrder(1)>>, earned, InitTotal)

NextConfirm ==
  \/ handleSaveTransaction("income", 1, NULL, "a1", 0, TRUE)
  \/ \E typed \in ConfirmTexts, confirmed \in BOOLEAN,
        fail \in MonthlySteps \cup {"none"} :
       handleMonthlyReset(typed, confirmed, fail)
  \/ \E typed \in ConfirmTexts, confirmed \in BOOLEAN,
        fail \in AllDataSteps \cup {"none"} :
       handleAllDataReset(typed, confirmed, fail)

SpecConfirm == InitConfirm /\ [][NextConfirm]_vars

\* C19: handleMonthlyReset performs no write unless the typed text is exactly
\* 'RESET' and the confirm dialog is accepted, and handleAllDataReset performs
\* no write unless the typed text is exactly 'RESET ALL' and the confirm dialog
\* is accepted.
ResetNeedsConfirmation ==
  [][LET StoreTables ==
           <<accounts, transactions, orders, order_items, worker_payment_records,
             profit_distributions, stock_movements, inventory, workers,
             customers, order_sequence, system_settings, worker_daily_work>>
     IN
     \A typed \in ConfirmTexts, confirmed \in BOOLEAN :
       /\ \A fail \in MonthlySteps \cup {"none"} :
            (typed # "RESET" \/ ~confirmed) /\ handleMonthlyReset(typed, confirmed, fail)
              => UNCHANGED StoreTables
       /\ \A fail \in AllDataSteps \cup {"none"} :
            (typed # "RESET ALL" \/ ~confirmed) /\ handleAllDataReset(typed, confirmed, fail)
              => UNCHANGED StoreTables]_vars

\* a reset has been turned away with an order, its item and a transaction stored
ResetNeedsConfirmationWitness ==
  /\ outcome.op = "allDataReset"
  /\ outcome.result = "rejected"
  /\ \E o \in DOMAIN orders : orders[o].is_active /\ order_items[o] # <<>>
  /\ transactions # <<>>


\* ------------------------------------------------------------------ C20
\* Deletion: orders with a product item are created, transactions naming the
\* first order are added, and orders are deleted with any one step failing.
NextDeletion ==
  \/ \E descr \in DOMAIN orders \cap {1} :
       handleSaveTransaction("income", 1, NULL, "a1", descr, TRUE)
  \/ handleSaveOrder("s1", 0, "completed", 1, 1, <<ProductItem>>, TRUE, 7, 3)
  \/ handleSaveOrderInvoke("s1")
  \/ \E o \in OrderIds, fail \in DeleteFailures :
       handleDeleteOrder(o, fail, "a1")

SpecDeletion == Init /\ [][NextDeletion]_vars

\* C20: order deletion has no rollback.  When one deletion step of
\* handleDeleteOrder fails, every other step still deletes its rows and the
\* order is deactivated; when the final deactivation fails the handler reports
\* 'Failed to delete order', the connected data it deleted stays deleted and
\* the order remains active.
DeletionHasNoRollback ==
  [][outcome'.op = "deleteOrder" =>
       \A o \in OrderIds, fail \in DeleteFailures :
         handleDeleteOrder(o, fail, "a1") =>
           /\ fail # "stock_movements" => stock_movements'[o] = <<>>
           /\ fail # "transactions" =>
                /\ \A i \in DOMAIN transactions' : transactions'[i].description # o
                /\ Len(transactions') = Len(transactions) - Cardinality(DetectedTransactions(o))
           /\ fail # "worker_payment_records" => worker_payment_records'[o] = 0
           /\ fail # "profit_distributions" => profit_distributions'[o] = 0
           /\ fail # "order_items" => order_items'[o] = <<>>
           /\ fail \in DeletionStepNames =>
                /\ ~orders'[o].is_active
                /\ outcome'.result = "success"
           /\ fail = "deactivate" =>
                /\ orders'[o].is_active
                /\ outcome'.result = "error"]_vars

\* the deactivation of an order failed after its items, its payment record
\* and the transaction naming it were deleted: the order is still active
DeletionHasNoRollbackWitness ==
  /\ outcome.op = "deleteOrder"
  /\ outcome.result = "error"
  /\ outcome.detected # {}
  /\ outcome.order \in DOMAIN orders
  /\ orders[outcome.order].is_active
  /\ order_items[outcome.order] = <<>>
  /\ worker_payment_records[outcome.order] = 0
  /\ \A i \in DOMAIN transactions : transactions[i].description # outcome.order


\* ------------------------------------------------------------------ C21
\* updateAccountBalancesForDelete(transaction): the balances are read, then
\* written back with the amount taken out; a transfer reads both accounts
\* before it writes either.  fail names the store call that returns an error.
updateAccountBalancesForDelete(accts, t, fail) ==
  IF fail = "fetch" THEN accts
  ELSE IF t.transaction_type = "income" /\ t.to_account_id # NULL
  THEN IF fail = "update" THEN accts
       ELSE [accts EXCEPT ![t.to_account_id].balance_minor =
               accts[t.to_account_id].balance_minor - t.amount_minor]
  ELSE IF t.transaction_type = "expense" /\ t.from_account_id # NULL
  THEN IF fail = "update" THEN accts
       ELSE [accts EXCEPT ![t.from_account_id].balance_minor =
               accts[t.from_account_id].balance_minor + t.amount_minor]
  ELSE IF t.transaction_type = "transfer" /\ t.from_account_id # NULL
          /\ t.to_account_id # NULL
  THEN LET fromAccountResult == accts[t.from_account_id].balance_minor
           toAccountResult == accts[t.to_account_id].balance_minor
           fromUpdated == [accts EXCEPT ![t.from_account_id].balance_minor =
                             fromAccountResult + t.amount_minor]
       IN IF fail = "update" THEN fromUpdated
          ELSE [fromUpdated EXCEPT ![t.to_account_id].balance_minor =
                  toAccountResult - t.amount_minor]
  ELSE accts

\* the largest balance, either side of zero, the reversals are followed to
MaxBalance == 4

\* the reversal of stored transaction i
ReverseTransaction(i, fail) ==
  /\ i \in DOMAIN transactions
  /\ accounts' = updateAccountBalancesForDelete(accounts, transactions[i], fail)
  /\ \A a \in Accounts : AbsoluteValue(accounts'[a].balance_minor) <= MaxBalance
  /\ outcome' = Report("updateAccountBalancesForDelete", i,
                       IF fail = "none" THEN "success" ELSE "error")
  /\ UNCHANGED <<transactions, orders, order_items, worker_payment_records,
                 profit_distributions, stock_movements, inventory, workers,
                 customers, order_sequence, pc, pendingOrder, issued,
                 reissued, invocations, invokedWith, sinceReset>>
  /\ UNCHANGED settingsAndAttendance

\* Reversal: a ledger of up to MaxTx transactions stored through the modal,
\* every balance the signed sum of the ledger; transactions are reversed and
\* deleted.
InitReversal ==
  \E a2Active \in BOOLEAN, ledger \in Ledgers :
    InitStore([a \in Accounts |->
                 [is_active |-> (a = "a1" \/ a2Active),
                  balance_minor |-> SignedSum(ledger, a)]],
              ledger, <<>>, 0, 0)

NextReversal ==
  \/ \E i \in 1..MaxTx, fail \in {"none", "fetch", "update"} :
       ReverseTransaction(i, fail)
  \/ \E i \in 1..MaxTx, deleteOk \in BOOLEAN : handleDeleteTransaction(i, deleteOk)

SpecReversal == InitReversal /\ [][NextReversal]_vars

\* C21: starting from active accounts whose balances equal the signed sum of
\* the stored transactions, reversing a transaction T with updateAccountBalancesForDelete
\* yields the same account balances as removing T from the ledger and running
\* recalculateAllAccountBalances, for every income, expense and transfer T, a
\* transfer whose from and to account are the same included.
ReversalAgreesWithRecalculation ==
  [][\A i \in DOMAIN transactions :
       /\ \A a \in Accounts :
            /\ accounts[a].is_active
            /\ accounts[a].balance_minor = SignedSum(transactions, a)
       /\ ReverseTransaction(i, "none")
       => accounts' = recalculateAllAccountBalances(accounts,
                                                    RemoveAt(transactions, i), {})]_vars

====
